---------------------------- MODULE Spec2Model ----------------------------
(***************************************************************************)
(* gmonitor_lib.clients: BaseHttpxClient._send_request and the default     *)
(* parser convert_httpx_response_to_json.                                  *)
(*                                                                         *)
(* A call of _send_request is a coroutine.  Its positions are              *)
(*   idle      not called yet                                              *)
(*   awaiting  lines 97-105 done: transport built, client context entered, *)
(*             request issued, suspended at `await client.request(...)`    *)
(*   responded the await returned a Response (context still open)          *)
(*   failed    the await raised (context still open, exception in flight)  *)
(*   released  `async with` left normally, before line 110                 *)
(*   done      the call returned or raised to its caller                   *)
(*                                                                         *)
(* A response body is a sequence of bytes over a small alphabet.  json(),  *)
(* .text and .content.decode("utf-8") are modelled by what httpx and the   *)
(* json module do with those bytes.                                        *)
(***************************************************************************)
EXTENDS Integers, Sequences, FiniteSets, TLC

\* ------------------------------------------------------------- bounds
\* Number of _send_request calls in flight on one client.
NumCalls ==
    2

\* Longest response body, in bytes.
MaxBodyLen ==
    3

\* ------------------------------------------------------------- inputs
\* Bytes of a body: a digit, the array brackets, JSON whitespace, a letter
\* that starts no JSON value, and a byte that is not valid UTF-8.
Bytes == {"1", "[", "]", " ", "x", "0x80"}

RECURSIVE SeqsUpTo(_, _)
SeqsUpTo(S, n) ==
    IF n = 0 THEN {<<>>}
    ELSE LET shorter == SeqsUpTo(S, n - 1)
         IN  shorter \cup {Append(s, b) : s \in {t \in shorter : Len(t) = n - 1}, b \in S}

AllBodies == SeqsUpTo(Bytes, MaxBodyLen)

\* Status codes on both sides of httpx's is_error range, 400..599.
AllStatuses == {200, 399, 400, 599}

AllResponses == [status : AllStatuses, body : AllBodies]

\* Responses of the concurrent specification: JSON with a success status,
\* and text that is not JSON with a success and with an error status.
SampleResponses ==
    { [status |-> 200, body |-> <<"1">>],
      [status |-> 200, body |-> <<"x">>],
      [status |-> 500, body |-> <<"x">>] }

\* Values of the retries argument (default 0).
RetriesValues == {0, 2}

\* Values of the parser argument: the default, parser=None, and two custom
\* callables: `lambda r: r.content` and one that raises its own KeyError.
DefaultParser == "convert_httpx_response_to_json"

NoParser == "None"

CustomParsers == {"content", "raises_KeyError"}

Parsers == {DefaultParser, NoParser} \cup CustomParsers

SampleParsers == {DefaultParser, NoParser, "content"}

\* What `await client.request(...)` can raise.  The httpx classes below
\* HTTPError, then two that are not: asyncio's CancelledError (the caller
\* was cancelled while suspended) and httpx.InvalidURL.
HTTPErrorClasses == {"ConnectError", "ConnectTimeout", "ReadTimeout"}

RequestExceptions ==
    { [cls |-> "ConnectError",   msg |-> <<"All connection attempts failed">>],
      [cls |-> "ConnectTimeout", msg |-> <<>>],
      [cls |-> "ReadTimeout",    msg |-> <<"timed out">>],
      [cls |-> "CancelledError", msg |-> <<>>],
      [cls |-> "InvalidURL",     msg |-> <<"Invalid non-printable ASCII character in URL">>] }

SampleExceptions ==
    { e \in RequestExceptions : e.cls \in {"ConnectError", "CancelledError"} }

\* ------------------------------------------------------------- values
\* Decoded JSON: a number or an array.
JNum(n) == [type |-> "number", num |-> n, items |-> <<>>]

JArr(xs) == [type |-> "array", num |-> 0, items |-> xs]

NoJson == [type |-> "absent", num |-> 0, items |-> <<>>]

NoResponse == [status |-> 0, body |-> <<>>]

NoError == [cls |-> "", msg |-> <<>>]

\* What `await client.request(...)` produced: a response or an exception.
NoArrival == [kind |-> "none", response |-> NoResponse, error |-> NoError]

Responded(r) == [kind |-> "response", response |-> r, error |-> NoError]

Raised(e) == [kind |-> "exception", response |-> NoResponse, error |-> e]

\* A Python value a call returns or an exception carries.
NoValue == [tag |-> "none", json |-> NoJson, text |-> <<>>, resp |-> NoResponse]

JsonValue(j) == [tag |-> "json", json |-> j, text |-> <<>>, resp |-> NoResponse]

TextValue(t) == [tag |-> "str", json |-> NoJson, text |-> t, resp |-> NoResponse]

BytesValue(b) == [tag |-> "bytes", json |-> NoJson, text |-> b, resp |-> NoResponse]

ResponseValue(r) == [tag |-> "Response", json |-> NoJson, text |-> <<>>, resp |-> r]

\* How a call or a parser ends.
NoOutcome == [kind |-> "none", exc |-> "", value |-> NoValue]

Return(v) == [kind |-> "return", exc |-> "", value |-> v]

Raise(cls, v) == [kind |-> "raise", exc |-> cls, value |-> v]

ExternalHttpRequestError == "ExternalHttpRequestError"


\* ------------------------------------------ httpx.Response, json.loads
\* Response.is_error: 400 <= status_code <= 599.
is_error(response) == response.status >= 400 /\ response.status <= 599

\* Whether the bytes are valid UTF-8.
Utf8Valid(b) == \A i \in 1..Len(b) : b[i] # "0x80"

\* Response.text: the body decoded as UTF-8 with errors="replace" (no
\* charset in the headers); it never raises.
ResponseText(b) == [i \in 1..Len(b) |-> IF b[i] = "0x80" THEN "U+FFFD" ELSE b[i]]

\* response.content.decode("utf-8"): strict, UnicodeDecodeError on a byte
\* that is not UTF-8.
ContentDecode(b) ==
    IF Utf8Valid(b) THEN [ok |-> TRUE, text |-> b, err |-> ""]
    ELSE [ok |-> FALSE, text |-> <<>>, err |-> "UnicodeDecodeError"]

\* json.decoder WHITESPACE.match(s, i).end(): the first index from i on that
\* holds no whitespace.
RECURSIVE SkipWs(_, _)
SkipWs(s, i) ==
    IF i <= Len(s) /\ s[i] = " " THEN SkipWs(s, i + 1) ELSE i

\* NUMBER_RE on a run of the digit "1": the run's end and its value.
RECURSIVE ScanNumber(_, _, _)
ScanNumber(s, i, acc) ==
    IF i <= Len(s) /\ s[i] = "1" THEN ScanNumber(s, i + 1, 10 * acc + 1)
    ELSE [ok |-> TRUE, val |-> JNum(acc), end |-> i]

ScanFail == [ok |-> FALSE, val |-> NoJson, end |-> 0]

\* json.scanner scan_once with JSONArray: the value that starts at index i
\* (1-based) and the index after it.  The alphabet has no comma, so after
\* an array's first element anything but "]" is "Expecting ',' delimiter".
RECURSIVE ScanOnce(_, _)
ScanOnce(s, i) ==
    IF i > Len(s) THEN ScanFail
    ELSE IF s[i] = "1" THEN ScanNumber(s, i, 0)
    ELSE IF s[i] = "[" THEN
        LET j == SkipWs(s, i + 1)
        IN  IF j <= Len(s) /\ s[j] = "]" THEN [ok |-> TRUE, val |-> JArr(<<>>), end |-> j + 1]
            ELSE LET e == ScanOnce(s, j)
                 IN  IF ~e.ok THEN ScanFail
                     ELSE LET k == SkipWs(s, e.end)
                          IN  IF k <= Len(s) /\ s[k] = "]"
                              THEN [ok |-> TRUE, val |-> JArr(<<e.val>>), end |-> k + 1]
                              ELSE ScanFail
    ELSE ScanFail

\* json.loads on bytes: decode them as UTF-8 (UnicodeDecodeError, a
\* ValueError that is no JSONDecodeError), then JSONDecoder.decode: skip
\* whitespace, scan one value, skip whitespace, and reject extra data.
JsonLoads(b) ==
    IF ~Utf8Valid(b) THEN [ok |-> FALSE, val |-> NoJson, err |-> "UnicodeDecodeError"]
    ELSE LET e == ScanOnce(b, SkipWs(b, 1))
         IN  IF e.ok /\ SkipWs(b, e.end) = Len(b) + 1
             THEN [ok |-> TRUE, val |-> e.val, err |-> ""]
             ELSE [ok |-> FALSE, val |-> NoJson, err |-> "JSONDecodeError"]

\* Response.json(): json.loads(self.content).
ResponseJson(response) == JsonLoads(response.body)

\* ------------------------------------------------------- the parsers
\* logger.error(f"Response body {text}")
LogEntry(text) == [level |-> "ERROR", msg |-> <<"Response body ">> \o text]

\* A parser's result: how it ends, and the log entries it emitted.
Parsed(o, l) == [outcome |-> o, logs |-> l]

\* convert_httpx_response_to_json, lines 36-40: the error-status branch.
\* `except JSONDecodeError` catches that class alone: any other exception
\* of response.json() leaves the function.
convert_error_status(response) ==
    LET j == ResponseJson(response)
    IN  IF j.ok
        THEN Parsed(Raise(ExternalHttpRequestError, JsonValue(j.val)), <<>>)
        ELSE IF j.err = "JSONDecodeError"
        THEN Parsed(Raise(ExternalHttpRequestError,
                          TextValue(ResponseText(response.body))), <<>>)
        ELSE Parsed(Raise(j.err, NoValue), <<>>)

\* convert_httpx_response_to_json, lines 41-45: the success-status branch.
convert_success_status(response) ==
    LET j == ResponseJson(response)
        d == ContentDecode(response.body)
    IN  IF j.ok
        THEN Parsed(Return(JsonValue(j.val)), <<>>)
        ELSE IF j.err = "JSONDecodeError"
        THEN IF d.ok
             THEN Parsed(Raise(ExternalHttpRequestError, TextValue(d.text)),
                         <<LogEntry(d.text)>>)
             ELSE Parsed(Raise(d.err, NoValue), <<>>)
        ELSE Parsed(Raise(j.err, NoValue), <<>>)

\* The status test of line 35 inverted.
convert_inverted_status(response) ==
    IF is_error(response) THEN convert_success_status(response)
    ELSE convert_error_status(response)

convert_httpx_response_to_json(response) ==
    IF is_error(response) THEN convert_error_status(response)
    ELSE convert_success_status(response)

\* A caller's own parser, applied to the raw response.
CustomParse(p, response) ==
    IF p = "content" THEN Parsed(Return(BytesValue(response.body)), <<>>)
    ELSE Parsed(Raise("KeyError", NoValue), <<>>)

\* parser(response), lines 110-111.
ApplyParser(p, response) ==
    IF p = DefaultParser THEN convert_httpx_response_to_json(response)
    ELSE CustomParse(p, response)

\* `except TimeoutException` in place of `except HTTPError`.
IsTimeoutException(e) == e.cls \in {"ConnectTimeout", "ReadTimeout"}

\* `except HTTPError`, line 108: the classes it catches.
IsHTTPError(e) == e.cls \in HTTPErrorClasses

\* ---------------------------------------------------------------- state
VARIABLES
    client,      \* BaseHttpxClient: _verify, _base_url, _auth
    pc,          \* each call's position
    args,        \* each call's parser and retries arguments
    transport,   \* each call's AsyncHTTPTransport(retries, verify)
    open,        \* whether each call's AsyncClient context is entered
    acquired,    \* how often each call entered its context
    released,    \* how often each call left its context
    requests,    \* how often each call issued client.request
    arrival,     \* what each call's await returned or raised
    pending,     \* the exception in flight in each call
    outcome,     \* how each call ended
    events,      \* each call's acquire/request/release/parse, in order
    log          \* the module's logger: its error-level entries, in order,
                 \* each with the call that emitted it

vars == <<client, pc, args, transport, open, acquired, released, requests,
          arrival, pending, outcome, events, log>>

NoArgs == [parser |-> DefaultParser, retries |-> 0]

NoTransport == [built |-> FALSE, retries |-> 0, verify |-> FALSE]

\* BaseHttpxClient.__init__, and every call not yet made.
InitOf(calls) ==
    /\ client \in [verify : BOOLEAN, base_url : {""}, auth : {"None"}]
    /\ pc = [c \in calls |-> "idle"]
    /\ args = [c \in calls |-> NoArgs]
    /\ transport = [c \in calls |-> NoTransport]
    /\ open = [c \in calls |-> FALSE]
    /\ acquired = [c \in calls |-> 0]
    /\ released = [c \in calls |-> 0]
    /\ requests = [c \in calls |-> 0]
    /\ arrival = [c \in calls |-> NoArrival]
    /\ pending = [c \in calls |-> NoOutcome]
    /\ outcome = [c \in calls |-> NoOutcome]
    /\ events = [c \in calls |-> <<>>]
    /\ log = <<>>

Calls == DOMAIN pc

\* The entries a parser run by call c hands to the logger.
Emitted(c, logs) == [i \in 1..Len(logs) |-> [by |-> c, entry |-> logs[i]]]

\* The logger's entries that call c emitted, in order.
LogOf(c) ==
    LET Mine(x) == x.by = c
        mine == SelectSeq(log, Mine)
    IN  [i \in 1..Len(mine) |-> mine[i].entry]

\* The calls suspended at `await client.request(...)`.
Awaiting == {c \in Calls : pc[c] = "awaiting"}

\* The transport kept on the client object (self._transport) in place of a
\* local: a new call replaces the transport of the calls in flight.
send_request_call_shared_transport(c, parser, retries) ==
    /\ pc[c] = "idle"
    /\ args' = [args EXCEPT ![c] = [parser |-> parser, retries |-> retries]]
    /\ transport' = [d \in Calls |->
                       IF d = c \/ pc[d] = "awaiting"
                       THEN [built |-> TRUE, retries |-> retries, verify |-> client.verify]
                       ELSE transport[d]]
    /\ open' = [open EXCEPT ![c] = TRUE]
    /\ acquired' = [acquired EXCEPT ![c] = @ + 1]
    /\ requests' = [requests EXCEPT ![c] = @ + 1]
    /\ events' = [events EXCEPT ![c] = @ \o <<"acquire", "request">>]
    /\ pc' = [pc EXCEPT ![c] = "awaiting"]
    /\ UNCHANGED <<client, released, arrival, pending, outcome, log>>

\* Lines 97-105, up to the suspension: build the transport, enter the
\* client context, issue the request.
send_request_call(c, parser, retries) ==
    /\ pc[c] = "idle"
    /\ args' = [args EXCEPT ![c] = [parser |-> parser, retries |-> retries]]
    /\ transport' = [transport EXCEPT
                       ![c] = [built |-> TRUE, retries |-> retries, verify |-> client.verify]]
    /\ open' = [open EXCEPT ![c] = TRUE]
    /\ acquired' = [acquired EXCEPT ![c] = @ + 1]
    /\ requests' = [requests EXCEPT ![c] = @ + 1]
    /\ events' = [events EXCEPT ![c] = @ \o <<"acquire", "request">>]
    /\ pc' = [pc EXCEPT ![c] = "awaiting"]
    /\ UNCHANGED <<client, released, arrival, pending, outcome, log>>

\* A retry loop in the executor: an error status is answered by another
\* request while attempts remain.
send_request_response_retrying(c, response) ==
    /\ pc[c] = "awaiting"
    /\ IF is_error(response) /\ requests[c] <= args[c].retries
       THEN /\ requests' = [requests EXCEPT ![c] = @ + 1]
            /\ events' = [events EXCEPT ![c] = Append(@, "request")]
            /\ UNCHANGED <<arrival, pc>>
       ELSE /\ arrival' = [arrival EXCEPT ![c] = Responded(response)]
            /\ pc' = [pc EXCEPT ![c] = "responded"]
            /\ UNCHANGED <<requests, events>>
    /\ UNCHANGED <<client, args, transport, open, acquired, released,
                   pending, outcome, log>>

\* Line 105: the await returns a response, of any status.
send_request_response(c, response) ==
    /\ pc[c] = "awaiting"
    /\ arrival' = [arrival EXCEPT ![c] = Responded(response)]
    /\ pc' = [pc EXCEPT ![c] = "responded"]
    /\ UNCHANGED <<client, args, transport, open, acquired, released, requests,
                   pending, outcome, events, log>>

\* `except HTTPError: return None`: the failure swallowed.
send_request_except_swallowed(c, e) ==
    /\ pc[c] = "awaiting"
    /\ arrival' = [arrival EXCEPT ![c] = Raised(e)]
    /\ pending' = [pending EXCEPT
                     ![c] = IF IsHTTPError(e)
                            THEN Return(NoValue)
                            ELSE Raise(e.cls, TextValue(e.msg))]
    /\ pc' = [pc EXCEPT ![c] = "failed"]
    /\ UNCHANGED <<client, args, transport, open, acquired, released, requests,
                   outcome, events, log>>

\* Lines 105-109: the await raises.  An HTTPError is replaced by
\* ExternalHttpRequestError(str(e)); anything else propagates as it is.
send_request_except(c, e) ==
    /\ pc[c] = "awaiting"
    /\ arrival' = [arrival EXCEPT ![c] = Raised(e)]
    /\ pending' = [pending EXCEPT
                     ![c] = IF IsHTTPError(e)
                            THEN Raise(ExternalHttpRequestError, TextValue(e.msg))
                            ELSE Raise(e.cls, TextValue(e.msg))]
    /\ pc' = [pc EXCEPT ![c] = "failed"]
    /\ UNCHANGED <<client, args, transport, open, acquired, released, requests,
                   outcome, events, log>>

\* The context closed by hand after the request, `await client.aclose()`
\* with no `finally`: an exception in flight skips the release.
send_request_aclose_no_finally(c) ==
    /\ pc[c] \in {"responded", "failed"}
    /\ IF pc[c] = "failed"
       THEN /\ outcome' = [outcome EXCEPT ![c] = pending[c]]
            /\ pc' = [pc EXCEPT ![c] = "done"]
            /\ UNCHANGED <<open, released, events>>
       ELSE /\ open' = [open EXCEPT ![c] = FALSE]
            /\ released' = [released EXCEPT ![c] = @ + 1]
            /\ events' = [events EXCEPT ![c] = Append(@, "release")]
            /\ pc' = [pc EXCEPT ![c] = "released"]
            /\ UNCHANGED outcome
    /\ UNCHANGED <<client, args, transport, acquired, requests, arrival, pending, log>>

\* The end of the `async with` block, line 103's __aexit__: the context is
\* released; an exception in flight then reaches the caller.
send_request_aexit(c) ==
    /\ pc[c] \in {"responded", "failed"}
    /\ open' = [open EXCEPT ![c] = FALSE]
    /\ released' = [released EXCEPT ![c] = @ + 1]
    /\ events' = [events EXCEPT ![c] = Append(@, "release")]
    /\ IF pc[c] = "failed"
       THEN /\ outcome' = [outcome EXCEPT ![c] = pending[c]]
            /\ pc' = [pc EXCEPT ![c] = "done"]
       ELSE /\ pc' = [pc EXCEPT ![c] = "released"]
            /\ UNCHANGED outcome
    /\ UNCHANGED <<client, args, transport, acquired, requests, arrival, pending, log>>

\* Lines 110-112 with the status checked by the executor itself: an error
\* status takes the default mapping whatever the parser argument.
send_request_parse_status_first(c) ==
    /\ pc[c] = "released"
    /\ IF is_error(arrival[c].response) \/ args[c].parser # NoParser
       THEN LET r == IF is_error(arrival[c].response)
                     THEN convert_httpx_response_to_json(arrival[c].response)
                     ELSE ApplyParser(args[c].parser, arrival[c].response)
            IN  /\ outcome' = [outcome EXCEPT ![c] = r.outcome]
                /\ log' = log \o Emitted(c, r.logs)
                /\ events' = [events EXCEPT ![c] = Append(@, "parse")]
       ELSE /\ outcome' = [outcome EXCEPT ![c] = Return(ResponseValue(arrival[c].response))]
            /\ UNCHANGED <<log, events>>
    /\ pc' = [pc EXCEPT ![c] = "done"]
    /\ UNCHANGED <<client, args, transport, open, acquired, released, requests,
                   arrival, pending>>

\* Lines 110-112 indented into the `async with` block: the parser runs
\* before the context is left.
send_request_parse_in_context(c) ==
    /\ pc[c] = "responded"
    /\ IF args[c].parser # NoParser
       THEN LET r == ApplyParser(args[c].parser, arrival[c].response)
            IN  /\ outcome' = [outcome EXCEPT ![c] = r.outcome]
                /\ log' = log \o Emitted(c, r.logs)
                /\ events' = [events EXCEPT ![c] = @ \o <<"parse", "release">>]
       ELSE /\ outcome' = [outcome EXCEPT ![c] = Return(ResponseValue(arrival[c].response))]
            /\ events' = [events EXCEPT ![c] = Append(@, "release")]
            /\ UNCHANGED log
    /\ open' = [open EXCEPT ![c] = FALSE]
    /\ released' = [released EXCEPT ![c] = @ + 1]
    /\ pc' = [pc EXCEPT ![c] = "done"]
    /\ UNCHANGED <<client, args, transport, acquired, requests, arrival, pending>>

\* Lines 110-112: the parser's result, or the raw response for parser=None.
send_request_parse(c) ==
    /\ pc[c] = "released"
    /\ IF args[c].parser # NoParser
       THEN LET r == ApplyParser(args[c].parser, arrival[c].response)
            IN  /\ outcome' = [outcome EXCEPT ![c] = r.outcome]
                /\ log' = log \o Emitted(c, r.logs)
                /\ events' = [events EXCEPT ![c] = Append(@, "parse")]
       ELSE /\ outcome' = [outcome EXCEPT ![c] = Return(ResponseValue(arrival[c].response))]
            /\ UNCHANGED <<log, events>>
    /\ pc' = [pc EXCEPT ![c] = "done"]
    /\ UNCHANGED <<client, args, transport, open, acquired, released, requests,
                   arrival, pending>>

\* One call, the server's response drawn from every status and every body
\* up to MaxBodyLen bytes.
InitOne == InitOf({1})

NextOne ==
    \/ \E c \in Calls, p \in Parsers, n \in RetriesValues : send_request_call(c, p, n)
    \/ \E c \in Awaiting, r \in AllResponses : send_request_response(c, r)
    \/ \E c \in Awaiting, e \in RequestExceptions : send_request_except(c, e)
    \/ \E c \in Calls : send_request_aexit(c)
    \/ \E c \in Calls : send_request_parse(c)

SpecOne == InitOne /\ [][NextOne]_vars

\* NumCalls calls in flight on one client, in any interleaving.
Init == InitOf(1..NumCalls)

Next ==
    \/ \E c \in Calls, p \in SampleParsers, n \in RetriesValues : send_request_call(c, p, n)
    \/ \E c \in Awaiting, r \in SampleResponses : send_request_response(c, r)
    \/ \E c \in Awaiting, e \in SampleExceptions : send_request_except(c, e)
    \/ \E c \in Calls : send_request_aexit(c)
    \/ \E c \in Calls : send_request_parse(c)

Spec == Init /\ [][Next]_vars

\* ---------------------------------------------------------------- claims
\* The calls that ended after their await returned a response.
Answered == {c \in Calls : pc[c] = "done" /\ arrival[c].kind = "response"}

\* The calls that ended after their await raised.
Thrown == {c \in Calls : pc[c] = "done" /\ arrival[c].kind = "exception"}

\* Answered calls that used the default parser.
AnsweredDefault == {c \in Answered : args[c].parser = DefaultParser}

Body(c) == arrival[c].response.body

\* C1: a response with a success status (is_error false) and a body that is
\* valid JSON makes _send_request with the default parser return exactly
\* the decoded structure of the body; nothing is raised and nothing logged.
C1_SuccessJsonIsReturned ==
    \A c \in AnsweredDefault :
        (~is_error(arrival[c].response) /\ JsonLoads(Body(c)).ok)
            => /\ outcome[c] = Return(JsonValue(JsonLoads(Body(c)).val))
               /\ LogOf(c) = <<>>

\* C1's case: status 200, body `[1]` with the default parser came back as
\* the one-element array holding the number 1.
C1_Witness ==
    \E c \in AnsweredDefault :
        /\ arrival[c].response = [status |-> 200, body |-> <<"[", "1", "]">>]
        /\ outcome[c] = Return(JsonValue(JArr(<<JNum(1)>>)))

\* C2 as stated: a response with an error status never makes the default
\* parser return; it raises ExternalHttpRequestError carrying the decoded
\* JSON when the body is valid JSON and the raw body text when it is not.
C2_ErrorStatusRaisesExternalError ==
    \A c \in AnsweredDefault :
        is_error(arrival[c].response)
            => outcome[c] = Raise(ExternalHttpRequestError,
                                  IF JsonLoads(Body(c)).ok
                                  THEN JsonValue(JsonLoads(Body(c)).val)
                                  ELSE TextValue(ResponseText(Body(c))))

\* C3 as stated: a response with a success status and a body that cannot be
\* decoded as JSON raises ExternalHttpRequestError carrying the body as
\* text, after exactly one error-level log entry holding that text.
C3_SuccessNonJsonLogsAndRaises ==
    \A c \in AnsweredDefault :
        (~is_error(arrival[c].response) /\ ~JsonLoads(Body(c)).ok)
            => /\ outcome[c] = Raise(ExternalHttpRequestError,
                                     TextValue(ResponseText(Body(c))))
               /\ LogOf(c) = <<LogEntry(ResponseText(Body(c)))>>

\* The transport-level failures C4 names: connection refused (with DNS and
\* TLS failures, httpx.ConnectError) and the timeouts.
TransportFailures == {"ConnectError", "ConnectTimeout", "ReadTimeout"}

\* C4: a transport-level exception raised by the network call, whatever the
\* retries argument, makes _send_request raise ExternalHttpRequestError
\* whose text is the exception's description; the parser is never invoked.
C4_TransportFailureRaisesItsText ==
    \A c \in Thrown :
        arrival[c].error.cls \in TransportFailures
            => /\ outcome[c] = Raise(ExternalHttpRequestError,
                                     TextValue(arrival[c].error.msg))
               /\ \A i \in 1..Len(events[c]) : events[c][i] # "parse"
               /\ LogOf(c) = <<>>

\* C4's case: a call made with retries=2 whose connection was refused has
\* raised the error carrying the ConnectError's text.
C4_Witness ==
    \E c \in Thrown :
        /\ args[c].retries = 2
        /\ arrival[c].error.cls = "ConnectError"
        /\ outcome[c].exc = ExternalHttpRequestError
        /\ outcome[c].value.text = <<"All connection attempts failed">>

\* C5: on every exit path of a call (return, error for an HTTP error
\* status, error for a transport exception, cancellation at the await) the
\* client context is released exactly once: a terminated call has one
\* acquisition, one release and no open context, and no call ever releases
\* more than it acquired.
C5_ContextReleasedOnEveryExit ==
    \A c \in Calls :
        /\ released[c] <= acquired[c]
        /\ acquired[c] <= 1
        /\ open[c] <=> (acquired[c] = released[c] + 1)
        /\ pc[c] = "done" => (acquired[c] = 1 /\ released[c] = 1 /\ ~open[c])

\* C5's case: one call was cancelled while suspended at the network call,
\* another raised for an HTTP error status; both have released their
\* context.
C5_Witness ==
    \E c, d \in Calls :
        /\ c \in Thrown /\ arrival[c].error.cls = "CancelledError"
        /\ outcome[c].exc = "CancelledError"
        /\ d \in AnsweredDefault /\ is_error(arrival[d].response)
        /\ outcome[d].kind = "raise"
        /\ released[c] = 1 /\ released[d] = 1

\* How an exception of the awaited request reaches the caller: an
\* HTTPError as ExternalHttpRequestError(str(e)), any other unchanged.
Surfaced(e) ==
    IF e.cls \in HTTPErrorClasses
    THEN Raise(ExternalHttpRequestError, TextValue(e.msg))
    ELSE Raise(e.cls, TextValue(e.msg))

\* C6 as stated: every call either returns parsed data or raises
\* ExternalHttpRequestError: whatever is raised is that one error kind, and
\* every failure (an exception of the request, an error status) is raised.
C6_OnlyExternalErrorOrParsedData ==
    \A c \in Calls :
        pc[c] = "done"
            => /\ outcome[c].kind \in {"return", "raise"}
               /\ outcome[c].kind = "raise" => outcome[c].exc = ExternalHttpRequestError
               /\ (c \in Thrown \/ is_error(arrival[c].response))
                      => outcome[c].kind = "raise"
               /\ outcome[c].kind = "return" => outcome[c].value.tag # "Response"

\* C6 amended: every terminated call has exactly one outcome, a return or
\* a raise, with no fallback value and nothing swallowed.
\*  - An exception of the request reaches the caller: an HTTPError as
\*    ExternalHttpRequestError, any other (cancellation, InvalidURL)
\*    unchanged.
\*  - With the default parser an error status always raises; a return is
\*    the decoded JSON of a success-status body; what is raised is
\*    ExternalHttpRequestError, or UnicodeDecodeError when the body is not
\*    valid UTF-8.
\*  - With parser=None the raw response is returned, and with a custom
\*    parser its own result or exception is the outcome.
C6_EveryOutcomeSurfaces ==
    \A c \in Calls :
        pc[c] = "done"
            => /\ outcome[c].kind \in {"return", "raise"}
               /\ c \in Thrown => outcome[c] = Surfaced(arrival[c].error)
               /\ c \in AnsweredDefault
                      => /\ is_error(arrival[c].response) => outcome[c].kind = "raise"
                         /\ outcome[c].kind = "raise"
                                => \/ outcome[c].exc = ExternalHttpRequestError
                                   \/ /\ outcome[c].exc = "UnicodeDecodeError"
                                      /\ ~Utf8Valid(Body(c))
                         /\ Utf8Valid(Body(c)) /\ outcome[c].kind = "raise"
                                => outcome[c].exc = ExternalHttpRequestError
                         /\ outcome[c].kind = "return"
                                => /\ ~is_error(arrival[c].response)
                                   /\ JsonLoads(Body(c)).ok
                                   /\ outcome[c].value = JsonValue(JsonLoads(Body(c)).val)
               /\ (c \in Answered /\ args[c].parser = NoParser)
                      => outcome[c] = Return(ResponseValue(arrival[c].response))
               /\ (c \in Answered /\ args[c].parser = "content")
                      => outcome[c] = Return(BytesValue(Body(c)))
               /\ (c \in Answered /\ args[c].parser = "raises_KeyError")
                      => outcome[c] = Raise("KeyError", NoValue)

\* C6's case: a failure path has surfaced: status 599 with the JSON body
\* `[]` and the default parser raised ExternalHttpRequestError carrying the
\* empty array.
C6_Witness ==
    \E c \in AnsweredDefault :
        /\ arrival[c].response = [status |-> 599, body |-> <<"[", "]">>]
        /\ outcome[c] = Raise(ExternalHttpRequestError, JsonValue(JArr(<<>>)))

\* C7: once a response has arrived the parser argument alone decides the
\* result: a custom parser's return value or exception is the call's, for
\* every status, with no log entry of the default mapping; parser=None
\* returns the raw response unchanged, for error statuses too, raises
\* nothing and invokes no parser.
C7_ParserArgumentDecides ==
    \A c \in Answered :
        /\ args[c].parser = "content"
               => outcome[c] = Return(BytesValue(Body(c))) /\ LogOf(c) = <<>>
        /\ args[c].parser = "raises_KeyError"
               => outcome[c] = Raise("KeyError", NoValue) /\ LogOf(c) = <<>>
        /\ args[c].parser = NoParser
               => /\ outcome[c] = Return(ResponseValue(arrival[c].response))
                  /\ LogOf(c) = <<>>
                  /\ \A i \in 1..Len(events[c]) : events[c][i] # "parse"

\* C7's case: parser=None and a status-400 response with a body that is not
\* JSON came back as that raw response.
C7_Witness ==
    \E c \in Answered :
        /\ args[c].parser = NoParser
        /\ arrival[c].response = [status |-> 400, body |-> <<"x">>]
        /\ outcome[c].kind = "return"
        /\ outcome[c].value.resp = arrival[c].response

\* How often a call issued the request, by its events.
RequestEvents(c) == Cardinality({i \in 1..Len(events[c]) : events[c][i] = "request"})

\* C8: the executor never retries: every call that has started has issued
\* the request exactly once, whatever its retries argument and whatever
\* the status of the response, and retries went to the call's transport.
C8_RequestIssuedOnce ==
    \A c \in Calls :
        /\ requests[c] = IF pc[c] = "idle" THEN 0 ELSE 1
        /\ RequestEvents(c) = requests[c]
        /\ pc[c] # "idle"
               => transport[c] = [built |-> TRUE, retries |-> args[c].retries,
                                  verify |-> client.verify]

\* C8's case: a call made with retries=2 got a status-500 response and has
\* ended with one request issued.
C8_Witness ==
    \E c \in Answered :
        /\ args[c].retries = 2
        /\ is_error(arrival[c].response)
        /\ requests[c] = 1

IsPrefix(s, t) == Len(s) <= Len(t) /\ \A i \in 1..Len(s) : s[i] = t[i]

\* Everything a call owns.
CallState(c) ==
    <<pc[c], args[c], transport[c], open[c], acquired[c], released[c],
      requests[c], arrival[c], pending[c], outcome[c], events[c], LogOf(c)>>

\* The outcome of a call running alone with these arguments and this
\* response or exception.
AloneOutcome(a, arr) ==
    IF arr.kind = "exception" THEN Surfaced(arr.error)
    ELSE IF a.parser = NoParser THEN Return(ResponseValue(arr.response))
    ELSE ApplyParser(a.parser, arr.response).outcome

\* C9: calls in flight on one client are independent: every step changes
\* the state of one call only (the logger, the one object the calls share,
\* is only appended to, and a call's entries are its own), leaves the
\* client's fields alone, each call keeps the transport built from its own
\* retries argument, and a call that has ended has the outcome it would
\* have alone with the same response or exception, whatever the other
\* calls did.
C9_CallsAreIndependent ==
    [][ /\ \E c \in Calls : \A d \in Calls \ {c} : CallState(d)' = CallState(d)
        /\ client' = client
        /\ IsPrefix(log, log')
        /\ \A c \in Calls :
               /\ pc'[c] # "idle"
                      => transport'[c] = [built |-> TRUE, retries |-> args'[c].retries,
                                          verify |-> client.verify]
               /\ pc'[c] = "done" => outcome'[c] = AloneOutcome(args'[c], arrival'[c])
      ]_vars

\* C9's case: two calls with different retries were in flight together;
\* one was cancelled, the other returned its decoded JSON.
C9_Witness ==
    \E c, d \in Calls :
        /\ c # d
        /\ args[c].retries # args[d].retries
        /\ c \in Thrown /\ outcome[c].exc = "CancelledError"
        /\ d \in AnsweredDefault /\ outcome[d] = Return(JsonValue(JNum(1)))

\* C10: the parser runs only after the call's context has been released:
\* the events of a call are always a prefix of acquire, request, release,
\* parse, and the context is closed when the parser is about to run and
\* once it has run.
C10_ParseAfterRelease ==
    \A c \in Calls :
        /\ IsPrefix(events[c], <<"acquire", "request", "release", "parse">>)
        /\ pc[c] = "released" => ~open[c]
        /\ (\E i \in 1..Len(events[c]) : events[c][i] = "parse")
               => ~open[c] /\ released[c] = 1

\* C10's case: a custom parser has run on a response, after the release.
C10_Witness ==
    \E c \in Answered :
        /\ args[c].parser = "content"
        /\ events[c] = <<"acquire", "request", "release", "parse">>
        /\ ~open[c]

=============================================================================
